---- MODULE Spec2Model ----
(***************************************************************************)
(* Model of two components of the handheld daemon (hhd):                   *)
(*                                                                         *)
(*   - the power-button watchdog, src/hhd/plugins/powerbutton/base.py:     *)
(*     power_button_run selects power_button_timer ("hold_emitted") or     *)
(*     power_button_isa ("hold_isa");                                      *)
(*   - the virtual output device UInputDevice,                             *)
(*     src/hhd/controller/virtual/uinput/__init__.py.                      *)
(*                                                                         *)
(* Time is counted in ticks of 0.5 s (STEAM_WAIT_DELAY).  The code of the  *)
(* loops runs in zero time; time passes only inside the blocking calls     *)
(* select.select and sleep.                                                *)
(***************************************************************************)
EXTENDS Integers, Sequences, FiniteSets, TLC

\* ------------------------------------------------------------------ bounds

\* The clock stops advancing at MaxTime.
MaxTime == 7
\* Events a grabbed device's kernel queue can hold unread.
MaxQueue == 1

\* --------------------------------------------------------------- constants

\* base.py:20, 0.5 s = 1 tick
STEAM_WAIT_DELAY == 1
\* base.py:21, 2.5 s = 5 ticks
LONG_PRESS_DELAY == 5
\* evdev.ecodes, read through B(...): kept symbolic
EV_SYN == "EV_SYN"
EV_KEY == "EV_KEY"
KEY_POWER == "KEY_POWER"
\* Python's None, for a device variable
None == "None"
\* pressed_time = None.  `if pressed_time` is also false for 0.0, and the
\* clock (perf_counter) starts at 1, so 0 stands for None.
NoTime == 0

Event(t, c, v) == [type |-> t, code |-> c, value |-> v]
PowerPress == Event(EV_KEY, KEY_POWER, 1)
PowerRelease == Event(EV_KEY, KEY_POWER, 0)
\* the kernel's autorepeat of a key that is held down
PowerRepeat == Event(EV_KEY, KEY_POWER, 2)
\* an event that is not a power-key event (the SYN_REPORT after a key)
SynReport == Event(EV_SYN, "SYN_REPORT", 0)
\* the hold sequence of the configuration and a key that is not in it
HoldA == Event(EV_KEY, "KEY_LEFTMETA", 1)
HoldB == Event(EV_KEY, "KEY_F10", 1)
HoldC == Event(EV_KEY, "KEY_A", 1)
hold_events == <<HoldA, HoldB>>

\* what the kernel can deliver on each physical device
PressDevEvents == {PowerPress, PowerRelease, PowerRepeat, SynReport}
HoldDevEvents == {HoldA, HoldB, HoldC}
Roles == {"press", "hold"}
DevEvents(role) == IF role = "press" THEN PressDevEvents ELSE HoldDevEvents

VARIABLES
    cfg_type,      \* cfg.type: "hold_emitted" | "hold_isa"
    pc,            \* "top" | "wait" | "select" | "done"
    now,           \* perf_counter(), in ticks
    deadline,      \* when the blocking call in progress returns
    gating,        \* is_steam_gamescope_running(ctx)
    should_exit,   \* should_exit.is_set()
    exit_at,       \* the time should_exit was set (0: not set)
    present,       \* physical devices attached
    opened,        \* device handles acquired by the loop and not closed
    queue,         \* role -> events pending on the handle
    dev,           \* power_button_timer: dev
    press_dev,     \* power_button_isa: press_dev
    hold_dev,      \* power_button_isa: hold_dev
    pressed_time,  \* power_button_timer: pressed_time
    hold_state,    \* power_button_isa: hold_state
    press_type,    \* press_type of the last iteration; "none" once the next one
                   \* begins (the code assigns it on every path before reading it)
    branch,        \* how the last select returned: "event" | "timeout" | "none"
    elapsed,       \* curr_time - pressed_time of the last release classified
    dispatched,    \* external actions called by the last loop step, in order
    returns,       \* what those calls returned, in the same order
    exit_reason,   \* why the loop ended
    since_press,   \* short/long actions dispatched since the last press read
    reacquired,    \* devices were acquired after a gating wait, nothing read since
    gate_dropped   \* gating went false since the pending press was read

wvars == <<cfg_type, pc, now, deadline, gating, should_exit, exit_at, present,
           opened, queue, dev, press_dev, hold_dev, pressed_time, hold_state,
           press_type, branch, elapsed, dispatched, returns, exit_reason, since_press,
           reacquired, gate_dropped>>


\* ------------------------------------------------------- watchdog helpers

EmptyQueues == [r \in Roles |-> <<>>]

\* base.py:224
Delay(pt) == IF pt # NoTime THEN LONG_PRESS_DELAY ELSE STEAM_WAIT_DELAY

\* base.py:237
IsLongGe(el) == el >= LONG_PRESS_DELAY
IsLong(el) == el > LONG_PRESS_DELAY

\* base.py:66-72 / 75-88: the first device whose phys matches, or None
Register(role) == IF role \in present THEN role ELSE None

\* base.py:209-211, 139-144: close the held devices when gating is false
CloseHeldLeak(held) == opened
CloseHeld(held) == opened \ held

\* the calls of one dispatch: the action and, when it fails, the fallback
\* (base.py:254-271, 167-194)
CallsBoth(action, ok) == <<action, "suspend">>
Calls(action, ok) == IF ok THEN <<action>> ELSE <<action, "suspend">>
\* what they return: the action returns ok; the fallback, called when the
\* action fails, returns fb, which nothing reads (base.py:271, 194)
Returns(ok, fb) == IF ok THEN <<TRUE>> ELSE <<FALSE, fb>>

Bump(n) == IF n < 2 THEN n + 1 ELSE n

WInit ==
    /\ cfg_type \in {"hold_emitted", "hold_isa"}
    /\ pc = "top"
    /\ now = 1
    /\ deadline = 1
    /\ gating \in BOOLEAN
    /\ should_exit = FALSE
    /\ exit_at = 0
    /\ present = Roles
    /\ opened = {}
    /\ queue = EmptyQueues
    /\ dev = None
    /\ press_dev = None
    /\ hold_dev = None
    /\ pressed_time = NoTime
    /\ hold_state = 0
    /\ press_type = "none"
    /\ branch = "none"
    /\ elapsed = 0
    /\ dispatched = <<>>
    /\ returns = <<>>
    /\ exit_reason = "none"
    /\ since_press = 0
    /\ reacquired = FALSE
    /\ gate_dropped = FALSE

\* the devices the configured variant uses
CfgRoles == IF cfg_type = "hold_emitted" THEN {"press"} ELSE Roles

\* ------------------------------------------------- power_button_timer

\* base.py:228-252: press_type and the new pressed_time of one iteration.
\* r: select returned the descriptor; ev: the event read_one returns then.
TimerClassify(r, ev, pt, curr_time) ==
    IF r THEN
        IF ev.type = EV_KEY /\ ev.code = KEY_POWER THEN
            IF ev.value # 0 THEN
                [press_type |-> "initial_press", pressed_time |-> curr_time]
            ELSE IF pt # NoTime THEN
                [press_type |-> IF IsLong(curr_time - pt) THEN "long_press"
                                ELSE "short_press",
                 pressed_time |-> NoTime]
            ELSE [press_type |-> "release_without_press", pressed_time |-> pt]
        ELSE [press_type |-> "no_press", pressed_time |-> pt]
    ELSE IF pt # NoTime THEN [press_type |-> "long_press", pressed_time |-> pt]
    ELSE [press_type |-> "no_press", pressed_time |-> pt]

\* base.py:254-271: the external calls of an iteration whose press_type is
\* pt, the action returning ok
TimerDispatch(pt, ok) ==
    IF pt = "long_press" THEN Calls("long", ok)
    ELSE IF pt = "short_press" THEN Calls("short", ok)
    ELSE <<>>

\* base.py:272-278: leaving the loop; the finally clause closes dev
TimerReturn(reason) ==
    /\ pc' = "done"
    /\ exit_reason' = reason
    /\ opened' = opened \ {dev}
    /\ UNCHANGED <<dev, deadline, queue, reacquired>>

\* base.py:216-225: acquire the device if it is not held, then enter select
TimerAcquire ==
    LET d == IF dev # None THEN dev ELSE Register("press") IN
    IF d = None THEN
        /\ pc' = "done"
        /\ exit_reason' = "not_found"
        /\ UNCHANGED <<dev, opened, deadline, queue, reacquired>>
    ELSE
        /\ dev' = d
        /\ opened' = opened \cup {d}
        /\ queue' = IF dev = None THEN EmptyQueues ELSE queue
        /\ pc' = "select"
        /\ deadline' = now + Delay(pressed_time)
        /\ reacquired' = (pc = "wait")
        /\ UNCHANGED exit_reason

\* base.py:205-225: the loop condition, the gating check, the acquisition
TimerTop ==
    /\ cfg_type = "hold_emitted"
    /\ pc = "top"
    /\ dispatched' = <<>>
    /\ returns' = <<>>
    /\ press_type' = "none"
    /\ branch' = "none"
    /\ elapsed' = 0
    /\ IF should_exit THEN TimerReturn("cancelled")
       ELSE IF ~gating THEN
            /\ opened' = CloseHeld({dev})
            /\ dev' = None
            /\ queue' = EmptyQueues
            /\ pc' = "wait"
            /\ deadline' = now
            /\ UNCHANGED <<exit_reason, reacquired>>
       ELSE TimerAcquire
    /\ UNCHANGED <<cfg_type, now, gating, should_exit, exit_at, present,
                   press_dev, hold_dev, pressed_time, hold_state, since_press,
                   gate_dropped>>

\* base.py:213-214: the gating wait; it never looks at should_exit
TimerWait ==
    /\ cfg_type = "hold_emitted"
    /\ pc = "wait"
    /\ now >= deadline
    /\ IF gating THEN TimerAcquire
       ELSE /\ deadline' = now + STEAM_WAIT_DELAY
            /\ UNCHANGED <<pc, dev, opened, queue, exit_reason, reacquired>>
    /\ UNCHANGED <<cfg_type, now, gating, should_exit, exit_at, present,
                   press_dev, hold_dev, pressed_time, hold_state, press_type,
                   branch, elapsed, dispatched, returns, since_press, gate_dropped>>

\* base.py:225-271: select returns (an event, or the timeout), the event is
\* classified and the action dispatched
TimerHandle(r, ev) ==
    LET c == TimerClassify(r, ev, pressed_time, now) IN
    /\ press_type' = c.press_type
    /\ pressed_time' = c.pressed_time
    /\ branch' = IF r THEN "event" ELSE "timeout"
    /\ elapsed' = IF c.press_type \in {"long_press", "short_press"}
                  THEN now - pressed_time ELSE 0
    /\ \E ok \in BOOLEAN : \E fb \in BOOLEAN :
        /\ dispatched' = TimerDispatch(c.press_type, ok)
        /\ returns' = IF c.press_type \in {"long_press", "short_press"}
                      THEN Returns(ok, fb) ELSE <<>>
    /\ since_press' = IF c.press_type = "initial_press" THEN 0
                      ELSE IF c.press_type \in {"long_press", "short_press"}
                           THEN Bump(since_press)
                      ELSE since_press
    /\ queue' = IF r THEN [queue EXCEPT ![dev] = Tail(@)] ELSE queue
    /\ gate_dropped' = IF c.press_type = "initial_press" THEN ~gating
                       ELSE gate_dropped
    /\ pc' = "top"
    /\ reacquired' = FALSE
    /\ UNCHANGED <<dev, opened, deadline, exit_reason>>

TimerSelect ==
    /\ cfg_type = "hold_emitted"
    /\ pc = "select"
    /\ \/ /\ dev \in present
          /\ queue[dev] # <<>>
          /\ TimerHandle(TRUE, Head(queue[dev]))
       \/ /\ dev \in present
          /\ queue[dev] = <<>>
          /\ now >= deadline
          /\ TimerHandle(FALSE, SynReport)
       \/ \* the device is gone: read_one raises, `except Exception` ends
          \* the loop
          /\ dev \notin present
          /\ TimerReturn("error")
          /\ UNCHANGED <<pressed_time, press_type, branch, elapsed,
                         dispatched, returns, since_press, gate_dropped>>
    /\ UNCHANGED <<cfg_type, now, gating, should_exit, exit_at, present,
                   press_dev, hold_dev, hold_state>>

\* --------------------------------------------------- power_button_isa

\* base.py:175-188: the hold cursor after the event chk, and whether the
\* sequence was completed
HoldMatchStay(events, hs, chk) ==
    LET h0 == IF hs >= Len(events) THEN 0 ELSE hs
        h1 == IF chk = events[h0 + 1] THEN h0 + 1 ELSE h0
    IN  IF h1 = Len(events) THEN [hold_state |-> 0, long |-> TRUE]
        ELSE [hold_state |-> h1, long |-> FALSE]
HoldMatchOn(events, hs, chk) ==
    LET h0 == IF hs >= Len(events) THEN 0 ELSE hs
        h1 == IF chk = events[h0 + 1] THEN h0 + 1 ELSE 0
    IN  IF h1 = Len(events) THEN [hold_state |-> 0, long |-> TRUE]
        ELSE [hold_state |-> h1, long |-> FALSE]
\* the same for the configured sequence, cfg.hold_events
HoldMatch(hs, chk) == HoldMatchOn(hold_events, hs, chk)

\* base.py:195-198: leaving the loop; there is no finally clause, nothing
\* is closed
IsaReturn(reason) ==
    /\ pc' = "done"
    /\ exit_reason' = reason
    /\ UNCHANGED <<press_dev, hold_dev, opened, deadline, queue, reacquired>>

\* base.py:151-160: acquire both devices if one is not held, then select
IsaAcquire ==
    LET need == press_dev = None \/ hold_dev = None
        p == IF need THEN Register("press") ELSE press_dev
        h == IF need THEN Register("hold") ELSE hold_dev
    IN  /\ press_dev' = p
        /\ hold_dev' = h
        /\ opened' = opened \cup ({p, h} \ {None})
        /\ queue' = IF need THEN EmptyQueues ELSE queue
        /\ IF p = None \/ h = None THEN
                /\ pc' = "done"
                /\ exit_reason' = "not_found"
                /\ UNCHANGED <<deadline, reacquired>>
           ELSE /\ pc' = "select"
                /\ deadline' = now + STEAM_WAIT_DELAY
                /\ reacquired' = (pc = "wait")
                /\ UNCHANGED exit_reason

\* base.py:135-160: the loop condition, the gating check, the acquisition
IsaTop ==
    /\ cfg_type = "hold_isa"
    /\ pc = "top"
    /\ dispatched' = <<>>
    /\ returns' = <<>>
    /\ branch' = "none"
    /\ IF should_exit THEN IsaReturn("cancelled")
       ELSE IF ~gating THEN
            /\ opened' = CloseHeld({press_dev, hold_dev})
            /\ press_dev' = None
            /\ hold_dev' = None
            /\ queue' = EmptyQueues
            /\ pc' = "wait"
            /\ deadline' = now
            /\ UNCHANGED <<exit_reason, reacquired>>
       ELSE IsaAcquire
    /\ UNCHANGED <<cfg_type, now, gating, should_exit, exit_at, present, dev,
                   pressed_time, hold_state, press_type, elapsed, since_press,
                   gate_dropped>>

\* base.py:146-149: the gating wait, which returns when should_exit is set
IsaWait ==
    /\ cfg_type = "hold_isa"
    /\ pc = "wait"
    /\ now >= deadline
    /\ IF gating THEN IsaAcquire
       ELSE IF should_exit THEN IsaReturn("cancelled")
       ELSE /\ deadline' = now + STEAM_WAIT_DELAY
            /\ UNCHANGED <<pc, press_dev, hold_dev, opened, queue,
                           exit_reason, reacquired>>
    /\ UNCHANGED <<cfg_type, now, gating, should_exit, exit_at, present, dev,
                   pressed_time, hold_state, press_type, branch, elapsed,
                   dispatched, returns, since_press, gate_dropped>>

\* base.py:160-194: select returns; one event of the first ready descriptor
\* is read and handled
IsaSelect ==
    /\ cfg_type = "hold_isa"
    /\ pc = "select"
    /\ \/ \* r[0] is the press device
          /\ {press_dev, hold_dev} \subseteq present
          /\ queue[press_dev] # <<>>
          /\ LET ev == Head(queue[press_dev])
                 short == ev.type = EV_KEY /\ ev.code = KEY_POWER
                          /\ ev.value # 0
             IN  /\ \E ok \in BOOLEAN : \E fb \in BOOLEAN :
                        /\ dispatched' = IF short THEN Calls("short", ok)
                                         ELSE <<>>
                        /\ returns' = IF short THEN Returns(ok, fb)
                                      ELSE <<>>
                 /\ since_press' = IF short THEN Bump(since_press)
                                   ELSE since_press
          /\ queue' = [queue EXCEPT ![press_dev] = Tail(@)]
          /\ branch' = "event"
          /\ pc' = "top"
          /\ reacquired' = FALSE
          /\ UNCHANGED <<hold_state, exit_reason>>
       \/ \* r[0] is the hold device
          /\ {press_dev, hold_dev} \subseteq present
          /\ queue[press_dev] = <<>>
          /\ queue[hold_dev] # <<>>
          /\ LET m == HoldMatch(hold_state, Head(queue[hold_dev]))
             IN  /\ hold_state' = m.hold_state
                 /\ \E ok \in BOOLEAN : \E fb \in BOOLEAN :
                        /\ dispatched' = IF m.long THEN Calls("long", ok)
                                         ELSE <<>>
                        /\ returns' = IF m.long THEN Returns(ok, fb)
                                      ELSE <<>>
                 /\ since_press' = IF m.long THEN Bump(since_press)
                                   ELSE since_press
          /\ queue' = [queue EXCEPT ![hold_dev] = Tail(@)]
          /\ branch' = "event"
          /\ pc' = "top"
          /\ reacquired' = FALSE
          /\ UNCHANGED exit_reason
       \/ \* the timeout: continue
          /\ {press_dev, hold_dev} \subseteq present
          /\ queue[press_dev] = <<>>
          /\ queue[hold_dev] = <<>>
          /\ now >= deadline
          /\ dispatched' = <<>>
          /\ returns' = <<>>
          /\ branch' = "timeout"
          /\ pc' = "top"
          /\ reacquired' = FALSE
          /\ UNCHANGED <<hold_state, queue, exit_reason, since_press>>
       \/ \* a device is gone: select or read_one raises, `except Exception`
          \* ends the loop
          /\ ~({press_dev, hold_dev} \subseteq present)
          /\ pc' = "done"
          /\ exit_reason' = "error"
          /\ UNCHANGED <<hold_state, queue, branch, dispatched, returns, since_press,
                         reacquired>>
    /\ UNCHANGED <<cfg_type, now, gating, should_exit, exit_at, present,
                   opened, deadline, dev, press_dev, hold_dev, pressed_time,
                   press_type, elapsed, gate_dropped>>

\* --------------------------------------------------------- environment

\* the target application starts or stops
GatingChange ==
    /\ pc # "done"
    /\ gating' = ~gating
    /\ gate_dropped' = IF gating /\ pressed_time # NoTime THEN TRUE
                       ELSE gate_dropped
    /\ UNCHANGED <<cfg_type, pc, now, deadline, should_exit, exit_at, present,
                   opened, queue, dev, press_dev, hold_dev, pressed_time,
                   hold_state, press_type, branch, elapsed, dispatched, returns,
                   exit_reason, since_press, reacquired>>

\* the owner of the loop sets the cancellation flag
SetExit ==
    /\ pc # "done"
    /\ ~should_exit
    /\ should_exit' = TRUE
    /\ exit_at' = now
    /\ UNCHANGED <<cfg_type, pc, now, deadline, gating, present, opened,
                   queue, dev, press_dev, hold_dev, pressed_time, hold_state,
                   press_type, branch, elapsed, dispatched, returns, exit_reason,
                   since_press, reacquired, gate_dropped>>

\* a physical device is removed, or comes back
Unplug ==
    /\ pc # "done"
    /\ \E role \in CfgRoles \cap present :
          /\ present' = present \ {role}
          /\ queue' = [queue EXCEPT ![role] = <<>>]
    /\ UNCHANGED <<cfg_type, pc, now, deadline, gating, should_exit, exit_at,
                   opened, dev, press_dev, hold_dev, pressed_time, hold_state,
                   press_type, branch, elapsed, dispatched, returns, exit_reason,
                   since_press, reacquired, gate_dropped>>

Plug ==
    /\ pc # "done"
    /\ \E role \in CfgRoles \ present : present' = present \cup {role}
    /\ UNCHANGED <<cfg_type, pc, now, deadline, gating, should_exit, exit_at,
                   opened, queue, dev, press_dev, hold_dev, pressed_time,
                   hold_state, press_type, branch, elapsed, dispatched, returns,
                   exit_reason, since_press, reacquired, gate_dropped>>

\* the kernel queues an event on a handle the loop holds
KernelEvent ==
    /\ pc # "done"
    /\ \E role \in opened \cap present :
          /\ Len(queue[role]) < MaxQueue
          /\ \E ev \in DevEvents(role) :
                queue' = [queue EXCEPT ![role] = Append(@, ev)]
    /\ UNCHANGED <<cfg_type, pc, now, deadline, gating, should_exit, exit_at,
                   present, opened, dev, press_dev, hold_dev, pressed_time,
                   hold_state, press_type, branch, elapsed, dispatched, returns,
                   exit_reason, since_press, reacquired, gate_dropped>>

\* whether the blocking call in progress would return now
Ready ==
    \/ now >= deadline
    \/ /\ pc = "select"
       /\ \E role \in opened : role \notin present \/ queue[role] # <<>>

\* time passes while the loop is blocked in select or sleep
Tick ==
    /\ pc \in {"select", "wait"}
    /\ ~Ready
    /\ now < MaxTime
    /\ now' = now + 1
    /\ UNCHANGED <<cfg_type, pc, deadline, gating, should_exit, exit_at,
                   present, opened, queue, dev, press_dev, hold_dev,
                   pressed_time, hold_state, press_type, branch, elapsed,
                   dispatched, returns, exit_reason, since_press, reacquired,
                   gate_dropped>>

\* ------------------------------------------------------- UInputDevice

\* bounds of the device model
\* open() calls in a run
MaxOpens == 2
\* close() calls on one handle that are counted
MaxCloses == 2
\* events of one consume call
MaxEvents == 1
\* inbound events one produce call drains
MaxInbound == 1
\* inbound events the kernel delivers in one run of the reader
MaxDrained == 3
\* abstract events the caller passes in one run of the writer
MaxPlan == 2
\* timestamp events the caller passes in one run of the writer
MaxStamps == 3
\* largest magnitude of an axis value tried on every mapped axis
MaxAxis == 6

\* self.dev = None (line 30)
NoHandle == 0
\* self.fd = None (line 57); `not self.fd` is also true of 0
NoFd == 0
\* self.fd before open() first sets it: __init__ (lines 16-39) never does
Unset == -1
\* self.rumble = None (line 39): the remembered effect is a sequence of
\* zero or one RumbleEvent
NoRumble == <<>>
\* the offset window of line 80, 2**30
TS_WINDOW == 1073741824

VARIABLES
    output_timestamps, \* self.output_timestamps
    self_dev,          \* self.dev: NoHandle, or the handle open() created
    self_fd,           \* self.fd: Unset, NoFd, or the handle's descriptor
    self_ofs,          \* self.ofs
    self_rumble,       \* self.rumble: NoRumble or <<the remembered RumbleEvent>>
    n_opens,           \* handles created so far
    k_open,            \* the handle self.dev refers to is open in the kernel
    k_closes,          \* close() calls made on that handle
    last_op,           \* the last method called
    ret,               \* what it returned
    raised,            \* it raised instead of returning
    writes,            \* the handle operations the last consume attempted
    acks,              \* the transactions the last produce completed
    on_closed          \* the last call operated on a closed handle

uvars == <<output_timestamps, self_dev, self_fd, self_ofs, self_rumble,
           n_opens, k_open, k_closes, last_op, ret, raised, writes,
           acks, on_closed>>

\* the traffic of the device: what its caller and the kernel still hold
\* for it, and what the last call was given
VARIABLES
    plan,              \* abstract events the caller will pass, in order
    consumed,          \* the argument of the last consume
    ofs_before,        \* self.ofs when the last consume was called
    ff_queue,          \* inbound events the kernel will deliver, in order
    drained,           \* the events the last produce read (line 101)
    rumble_before      \* self.rumble when the last produce was called

gvars == <<plan, consumed, ofs_before, ff_queue, drained, rumble_before>>

\* the device with its traffic
dvars == <<uvars, gvars>>

vars == <<wvars, uvars, gvars>>

\* Python's float -> int conversion of n/d (d > 0): truncation toward zero
IntFloor(n, d) == n \div d
IntOf(n, d) == IF n >= 0 THEN n \div d ELSE -((-n) \div d)

Min(a, b) == IF a < b THEN a ELSE b
Max(a, b) == IF a > b THEN a ELSE b

\* AX(id, scale, offset, bounds) entries of the axis map given to the
\* constructor; scale is sn/sd, offset is on/od
NoBounds == <<>>
axis_map ==
    [ls_x |-> [id |-> "ABS_X", sn |-> 3, sd |-> 2, on |-> 0, od |-> 1,
               bounds |-> NoBounds],
     ls_y |-> [id |-> "ABS_Y", sn |-> 2, sd |-> 3, on |-> 1, od |-> 4,
               bounds |-> <<-3, 3>>],
     rt |-> [id |-> "ABS_Z", sn |-> 1, sd |-> 2, on |-> 1, od |-> 2,
             bounds |-> <<0, 2>>]]
btn_map == [a |-> "BTN_A", b |-> "BTN_B"]

AxisCodes == {"ls_x", "rt", "touchpad_x", "accel_ts"}
ButtonCodes == {"a", "share"}
AxisValues == {-3, 5}
\* Python's integers are unbounded, TLC's have 32 bits.  A count of
\* microseconds is kept as the pair hi, lo that stands for
\* hi * 2**30 + lo with 0 <= lo < 2**30.
Big(hi, lo) == [hi |-> hi, lo |-> lo]
Zero == Big(0, 0)
\* a - b
BigSub(a, b) ==
    IF a.lo >= b.lo THEN Big(a.hi - b.hi, a.lo - b.lo)
    ELSE Big(a.hi - b.hi - 1, a.lo - b.lo + TS_WINDOW)
\* a > b
BigGt(a, b) == a.hi > b.hi \/ (a.hi = b.hi /\ a.lo > b.lo)
\* a + 2**30
PlusWindow(a) == Big(a.hi + 1, a.lo)

\* A timestamp in nanoseconds, 1000 * us + ns (0 <= ns < 1000), is kept as
\* the pair of its parts.
Nanos(us, ns) == [us |-> us, ns |-> ns]
TsValues == {Nanos(Big(0, 5), 999), Nanos(Big(1, 6), 1)}
\* raw timestamps around two windows: 5, 2**30, 2**30 + 6, 2**31 + 6 and
\* 2**31 + 7 microseconds
StampValues ==
    {Nanos(Big(0, 5), 999), Nanos(Big(1, 0), 0), Nanos(Big(1, 6), 1),
     Nanos(Big(2, 6), 500), Nanos(Big(2, 7), 0)}
\* line 78: value // 1000
Micros(value) == value.us

\* line 80: ts > self.ofs + 2**30
TsResetNever(ts, ofs) == FALSE
TsReset(ts, ofs) == BigGt(ts, PlusWindow(ofs))

\* the abstract events a caller may hand to consume
ConsumeEvents ==
    {[type |-> "axis", code |-> c, value |-> v] :
        c \in AxisCodes \ {"accel_ts"}, v \in AxisValues}
    \cup {[type |-> "axis", code |-> "accel_ts", value |-> v] : v \in TsValues}
    \cup {[type |-> "button", code |-> c, value |-> TRUE] : c \in ButtonCodes}
    \cup {[type |-> "led", code |-> "main", value |-> 0]}

\* lines 67-70: the value written for axis entry ax and input v
AxisValue(ax, v) ==
    LET val == IntOf(ax.sn * v * ax.od + ax.on * ax.sd, ax.sd * ax.od)
    IN  IF ax.bounds # NoBounds
        THEN Min(Max(val, ax.bounds[1]), ax.bounds[2])
        ELSE val

Write(t, c, v) == [op |-> "write", type |-> t, code |-> c, value |-> v]
Syn == [op |-> "syn", type |-> "EV_SYN", code |-> "SYN_REPORT", value |-> 0]

\* a loop that writes nothing
ConsumeLoopDrop(evs, ofs, out) == [ofs |-> ofs, writes |-> out]

\* lines 63-91: the writes of the events evs, in order, and the final ofs
RECURSIVE ConsumeLoop(_, _, _)
ConsumeLoop(evs, ofs, out) ==
    IF evs = <<>> THEN [ofs |-> ofs, writes |-> out]
    ELSE
        LET ev == Head(evs) IN
        IF ev.type = "axis" THEN
            IF ev.code \in DOMAIN axis_map THEN
                LET ax == axis_map[ev.code] IN
                ConsumeLoop(Tail(evs), ofs,
                    Append(out, Write("EV_ABS", ax.id, AxisValue(ax, ev.value))))
            ELSE IF output_timestamps /\ ev.code \in {"accel_ts", "gyro_ts"} THEN
                LET ts == Micros(ev.value)
                    o2 == IF TsReset(ts, ofs) THEN ts ELSE ofs
                IN  ConsumeLoop(Tail(evs), o2,
                        Append(out, Write("EV_MSC", "MSC_TIMESTAMP",
                                          BigSub(ts, o2))))
            ELSE ConsumeLoop(Tail(evs), ofs, out)
        ELSE IF ev.type = "button" THEN
            IF ev.code \in DOMAIN btn_map THEN
                ConsumeLoop(Tail(evs), ofs,
                    Append(out, Write("EV_KEY", btn_map[ev.code],
                                      IF ev.value THEN 1 ELSE 0)))
            ELSE ConsumeLoop(Tail(evs), ofs, out)
        ELSE ConsumeLoop(Tail(evs), ofs, out)

\* the events the kernel can queue for the reader of the virtual device
FFUpload(t, w, st) ==
    [type |-> "EV_UINPUT", code |-> "UI_FF_UPLOAD", value |-> 1,
     effect |-> [type |-> t, weak |-> w, strong |-> st]]
NoEffect == [type |-> "none", weak |-> 0, strong |-> 0]
InboundEvents ==
    {FFUpload("FF_RUMBLE", 32768, 65535), FFUpload("FF_PERIODIC", 7, 7),
     [type |-> "EV_UINPUT", code |-> "UI_FF_ERASE", value |-> 1,
      effect |-> NoEffect],
     [type |-> "EV_FF", code |-> "effect", value |-> 1, effect |-> NoEffect],
     [type |-> "EV_FF", code |-> "effect", value |-> 0, effect |-> NoEffect],
     [type |-> "EV_MSC", code |-> "MSC_TIMESTAMP", value |-> 5,
      effect |-> NoEffect],
     [type |-> "EV_KEY", code |-> "BTN_A", value |-> 1, effect |-> NoEffect]}

\* a RumbleEvent; a magnitude raw / 0xFFFF is kept as the pair <<raw, 65535>>
Rumble(w, st) ==
    [type |-> "rumble", code |-> "main", weak_magnitude |-> w,
     strong_magnitude |-> st]
RumbleStop == Rumble(<<0, 1>>, <<0, 1>>)

\* lines 100-142: the events drained, in order.  ev.end_erase (line 124) is
\* no method of an input event: it raises AttributeError, which ends produce.
RECURSIVE ProduceLoop(_, _, _, _)
ProduceLoop(evs, rumble, out, ak) ==
    IF evs = <<>>
    THEN [rumble |-> rumble, out |-> out, acks |-> ak, raised |-> FALSE]
    ELSE
        LET ev == Head(evs) IN
        IF ev.type = "EV_MSC" /\ ev.code = "MSC_TIMESTAMP" THEN
            ProduceLoop(Tail(evs), rumble, out, ak)
        ELSE IF ev.type = "EV_UINPUT" THEN
            IF ev.code = "UI_FF_UPLOAD" THEN
                ProduceLoop(Tail(evs),
                    IF ev.effect.type = "FF_RUMBLE"
                    THEN <<Rumble(<<ev.effect.weak, 65535>>,
                                  <<ev.effect.strong, 65535>>)>>
                    ELSE rumble,
                    out, Append(ak, "end_upload"))
            ELSE IF ev.code = "UI_FF_ERASE" THEN
                [rumble |-> rumble, out |-> out, acks |-> ak, raised |-> TRUE]
            ELSE ProduceLoop(Tail(evs), rumble, out, ak)
        ELSE IF ev.type = "EV_FF" /\ ev.value # 0 THEN
            ProduceLoop(Tail(evs), rumble,
                IF rumble # NoRumble THEN Append(out, rumble[1]) ELSE out, ak)
        ELSE IF ev.type = "EV_FF" /\ ev.value = 0 THEN
            ProduceLoop(Tail(evs), rumble, Append(out, RumbleStop), ak)
        ELSE ProduceLoop(Tail(evs), rumble, out, ak)

\* no traffic
GInit ==
    /\ plan = <<>>
    /\ consumed = <<>>
    /\ ofs_before = Zero
    /\ ff_queue = <<>>
    /\ drained = <<>>
    /\ rumble_before = NoRumble

\* lines 16-39
UInit ==
    /\ output_timestamps \in BOOLEAN
    /\ self_dev = NoHandle
    /\ self_fd = Unset
    /\ self_ofs = Zero
    /\ self_rumble = NoRumble
    /\ n_opens = 0
    /\ k_open = FALSE
    /\ k_closes = 0
    /\ last_op = "none"
    /\ ret = <<>>
    /\ raised = FALSE
    /\ writes = <<>>
    /\ acks = <<>>
    /\ on_closed = FALSE

\* lines 41-51: UInput(...) creates a handle, or raises
UOpen ==
    /\ n_opens < MaxOpens
    /\ last_op' = "open"
    /\ \E ok \in BOOLEAN :
        IF ok THEN
            /\ n_opens' = n_opens + 1
            /\ self_dev' = n_opens + 1
            /\ self_fd' = n_opens + 1
            /\ k_open' = TRUE
            /\ k_closes' = 0
            /\ ret' = <<n_opens + 1>>
            /\ raised' = FALSE
        ELSE
            /\ raised' = TRUE
            /\ ret' = <<>>
            /\ UNCHANGED <<n_opens, self_dev, self_fd, k_open, k_closes>>
    /\ writes' = <<>>
    /\ acks' = <<>>
    /\ on_closed' = FALSE
    /\ UNCHANGED <<output_timestamps, self_ofs, self_rumble>>

\* line 54: `if self.dev`
HasDev == self_dev # NoHandle

\* lines 53-58: self.dev is closed when set; self.input and self.fd are
\* reset, self.dev is not
UClose ==
    /\ k_closes < MaxCloses
    /\ last_op' = "close"
    /\ IF HasDev THEN
            /\ k_closes' = k_closes + 1
            /\ k_open' = FALSE
            /\ on_closed' = ~k_open
       ELSE /\ on_closed' = FALSE
            /\ UNCHANGED <<k_closes, k_open>>
    /\ self_fd' = NoFd
    /\ ret' = <<TRUE>>
    /\ raised' = FALSE
    /\ writes' = <<>>
    /\ acks' = <<>>
    /\ UNCHANGED <<output_timestamps, self_dev, self_ofs, self_rumble, n_opens>>

\* lines 60-92
Consume(evs) ==
    /\ last_op' = "consume"
    /\ IF ~HasDev THEN
            /\ writes' = <<>>
            /\ on_closed' = FALSE
            /\ UNCHANGED self_ofs
        ELSE
            LET c == ConsumeLoop(evs, self_ofs, <<>>) IN
            /\ writes' = Append(c.writes, Syn)
            /\ self_ofs' = c.ofs
            /\ on_closed' = ~k_open
    /\ ret' = <<>>
    /\ raised' = FALSE
    /\ acks' = <<>>
    /\ UNCHANGED <<output_timestamps, self_dev, self_fd, self_rumble, n_opens,
                   k_open, k_closes>>

\* a consume call with any short argument
UConsume ==
    \E n \in 0..MaxEvents : \E evs \in [1..n -> ConsumeEvents] : Consume(evs)

\* a consume call that passes the next n events of the plan
QConsume ==
    \E n \in 0..Len(plan) :
        LET evs == SubSeq(plan, 1, n) IN
        /\ Consume(evs)
        /\ consumed' = evs
        /\ ofs_before' = self_ofs
        /\ plan' = SubSeq(plan, n + 1, Len(plan))
        /\ UNCHANGED <<ff_queue, drained, rumble_before>>

\* line 95 lets the call through to the read loop
CanProduce(fds) ==
    self_fd # Unset /\ self_fd # NoFd /\ self_fd \in fds /\ HasDev

\* lines 94-144.  fds: the ready descriptors the caller passes; evs: the
\* events the kernel holds for the reader, which the loop of line 100 drains
Produce(fds, evs) ==
    /\ last_op' = "produce"
    /\ writes' = <<>>
    /\ IF self_fd = Unset THEN
            \* `self.fd` does not exist yet: AttributeError
            /\ raised' = TRUE
            /\ ret' = <<>>
            /\ acks' = <<>>
            /\ on_closed' = FALSE
            /\ UNCHANGED self_rumble
        ELSE IF self_fd = NoFd \/ self_fd \notin fds \/ ~HasDev THEN
            /\ raised' = FALSE
            /\ ret' = <<>>
            /\ acks' = <<>>
            /\ on_closed' = FALSE
            /\ UNCHANGED self_rumble
        ELSE
            LET p == ProduceLoop(evs, self_rumble, <<>>, <<>>) IN
            /\ raised' = p.raised
            /\ ret' = IF p.raised THEN <<>> ELSE p.out
            /\ acks' = p.acks
            /\ self_rumble' = p.rumble
            /\ on_closed' = ~k_open
    /\ UNCHANGED <<output_timestamps, self_dev, self_fd, self_ofs, n_opens,
                   k_open, k_closes>>

\* a produce call with any ready set and any short batch
UProduce ==
    \E fds \in SUBSET (1..MaxOpens) :
    \E n \in 0..MaxInbound : \E evs \in [1..n -> InboundEvents] :
        Produce(fds, evs)

\* a produce call while the kernel holds the first n events of ff_queue for
\* the reader
QProduce ==
    \E fds \in SUBSET (1..MaxOpens) : \E n \in 0..Len(ff_queue) :
        LET evs == SubSeq(ff_queue, 1, n) IN
        /\ Produce(fds, evs)
        /\ rumble_before' = self_rumble
        /\ IF CanProduce(fds) THEN
                /\ drained' = evs
                /\ ff_queue' = SubSeq(ff_queue, n + 1, Len(ff_queue))
           ELSE /\ drained' = <<>>
                /\ UNCHANGED ff_queue
        /\ UNCHANGED <<plan, consumed, ofs_before>>

\* ------------------------------------------------------------- claims

\* C1: in the timer variant, one press dispatches at most one action: after
\* the timeout dispatched long-press the state is Idle, so later timeouts and
\* the release dispatch nothing until a new press is read.
C1_OneActionPerPress ==
    cfg_type = "hold_emitted" => since_press <= 1

\* what the last iteration must have called for its press_type
ExpectedCall == IF press_type = "long_press" THEN "long" ELSE "short"

\* the last iteration of the timer variant classified a release read while
\* a press was pending
ReleaseClassified ==
    /\ cfg_type = "hold_emitted"
    /\ branch = "event"
    /\ press_type \in {"long_press", "short_press"}

\* C2, as claimed: a release read while Pressed is a long press when
\* elapsed >= threshold (equality included) and a short press otherwise, the
\* matching action is dispatched and the state is Idle.
C2_LongAtThreshold ==
    ReleaseClassified =>
        /\ (press_type = "long_press") <=> (elapsed >= LONG_PRESS_DELAY)
        /\ dispatched # <<>> /\ dispatched[1] = ExpectedCall
        /\ pressed_time = NoTime

\* C2, amended: a release read while Pressed is a long press when elapsed is
\* strictly greater than the threshold and a short press otherwise (equality
\* included), the matching action is dispatched and the state is Idle.
C2_LongAboveThreshold ==
    ReleaseClassified =>
        /\ (press_type = "long_press") <=> (elapsed > LONG_PRESS_DELAY)
        /\ dispatched # <<>> /\ dispatched[1] = ExpectedCall
        /\ pressed_time = NoTime

\* a release read exactly at the threshold was classified short
C2_Witness ==
    /\ ReleaseClassified
    /\ elapsed = LONG_PRESS_DELAY
    /\ press_type = "short_press"
    /\ dispatched[1] = "short"

\* C3: in the timer variant, while gating stays true, a press held past the
\* threshold is classified long by the timeout before its release is read:
\* no release read before the wait in progress expired is the first to
\* classify its press as long.
C3_LongByTimeoutFirst ==
    ~ /\ ReleaseClassified
      /\ press_type = "long_press"
      /\ since_press = 1
      /\ ~gate_dropped
      /\ now < deadline

\* C4: after the devices were released and re-acquired the session state is
\* clean: no pending press time, hold cursor 0.
C4_CleanAfterReacquire ==
    reacquired => pressed_time = NoTime /\ hold_state = 0

\* C5: while the loop waits for gating to come back, every device it held is
\* closed and the loop dispatches no action.
C5_NothingWhileGated ==
    pc = "wait" =>
        /\ opened = {}
        /\ dev = None /\ press_dev = None /\ hold_dev = None
        /\ dispatched = <<>>

\* gating was lost while a press was pending on the held device, and the
\* loop has been waiting since
C5_Witness ==
    /\ pc = "wait"
    /\ cfg_type = "hold_emitted"
    /\ pressed_time # NoTime
    /\ ~gating
    /\ now > pressed_time + 1

\* C6: an unexpected device I/O error does not end the loop.
C6_ErrorDoesNotEndLoop ==
    pc = "done" => exit_reason # "error"

\* C7: once should_exit is set the loop ends within one timeout interval:
\* one poll interval while it waits for gating, at most one wait and one
\* select otherwise.
C7_ExitWithinInterval ==
    (should_exit /\ pc # "done") =>
        /\ pc = "wait" => now - exit_at <= STEAM_WAIT_DELAY
        /\ now - exit_at <= STEAM_WAIT_DELAY + LONG_PRESS_DELAY

\* C8: when the loop has ended, every handle it acquired is closed.
C8_ClosedAtExit ==
    pc = "done" => opened = {}

\* C9: close releases the handle once: no handle is closed twice, close never
\* operates on a closed handle and it returns true.
C9_CloseOnce ==
    /\ k_closes <= 1
    /\ last_op = "close" => ~on_closed /\ ret = <<TRUE>> /\ ~raised

\* C10: while the device is not open, consume attempts no write and no
\* synchronization barrier, and produce returns an empty sequence.
C10_OnlyWhileOpen ==
    ~k_open =>
        /\ last_op = "consume" => writes = <<>>
        /\ last_op = "produce" => ret = <<>> /\ acks = <<>>

\* the hold sequences and the events the matcher is tried on
HoldSeqs ==
    UNION {[1..n -> HoldDevEvents] : n \in 1..3}

\* the long presses dispatched while the events of stream are read one per
\* iteration from cursor hs
RECURSIVE LongsOf(_, _, _)
LongsOf(events, hs, stream) ==
    IF stream = <<>> THEN 0
    ELSE LET m == HoldMatchOn(events, hs, Head(stream))
         IN  (IF m.long THEN 1 ELSE 0)
             + LongsOf(events, m.hold_state, Tail(stream))

\* C14, for one event: a match advances the cursor, reaching the end resets
\* it and completes the sequence, any other event resets it
MatcherRule ==
    \A events \in HoldSeqs : \A hs \in 0..(Len(events) - 1) :
    \A chk \in HoldDevEvents :
        LET m == HoldMatchOn(events, hs, chk) IN
        /\ m.hold_state \in 0..(Len(events) - 1)
        /\ IF chk # events[hs + 1] THEN m.hold_state = 0 /\ ~m.long
           ELSE IF hs + 1 = Len(events) THEN m.hold_state = 0 /\ m.long
           ELSE m.hold_state = hs + 1 /\ ~m.long

\* an iteration of the sequence variant reads an event of the hold device
HoldRead ==
    /\ cfg_type = "hold_isa" /\ pc = "select" /\ pc' = "top"
    /\ branch' = "event"
    /\ queue[hold_dev] # <<>>
    /\ queue'[hold_dev] = Tail(queue[hold_dev])

IsLongCall(c) == c = "long"

\* what C14 says of that iteration
HoldStepRule ==
    LET ev == Head(queue[hold_dev]) IN
    IF ev # hold_events[hold_state + 1]
    THEN hold_state' = 0 /\ dispatched' = <<>>
    ELSE IF hold_state + 1 = Len(hold_events)
    THEN hold_state' = 0 /\ Len(SelectSeq(dispatched', IsLongCall)) = 1
    ELSE hold_state' = hold_state + 1 /\ dispatched' = <<>>

\* C14: in the sequence variant the cursor is within the hold sequence at
\* every iteration; an event of the hold device equal to the element at the
\* cursor advances the cursor, any other event resets it to 0, and reaching
\* the end resets it to 0 and dispatches long-press exactly once; the
\* streams A,B and A,C,A,B over [A,B] each dispatch long-press once.
C14_HoldMatcher ==
    /\ [](/\ hold_state \in 0..(Len(hold_events) - 1)
          /\ MatcherRule
          /\ LongsOf(<<HoldA, HoldB>>, 0, <<HoldA, HoldB>>) = 1
          /\ LongsOf(<<HoldA, HoldB>>, 0, <<HoldA, HoldC, HoldA, HoldB>>) = 1)
    /\ [][HoldRead => HoldStepRule]_vars

\* the hold sequence was completed: long-press dispatched, cursor back at 0
C14_Witness ==
    /\ cfg_type = "hold_isa"
    /\ branch = "event"
    /\ hold_state = 0
    /\ dispatched # <<>> /\ dispatched[1] = "long"

\* the type and code of the device event C15 expects for each mapped event
\* of evs, in order
RECURSIVE ExpectedCodes(_)
ExpectedCodes(evs) ==
    IF evs = <<>> THEN <<>>
    ELSE LET ev == Head(evs)
             one ==
                IF ev.type = "axis" /\ ev.code \in DOMAIN axis_map
                THEN <<<<"EV_ABS", axis_map[ev.code].id>>>>
                ELSE IF ev.type = "axis" /\ output_timestamps
                        /\ ev.code \in {"accel_ts", "gyro_ts"}
                THEN <<<<"EV_MSC", "MSC_TIMESTAMP">>>>
                ELSE IF ev.type = "button" /\ ev.code \in DOMAIN btn_map
                THEN <<<<"EV_KEY", btn_map[ev.code]>>>>
                ELSE <<>>
         IN  one \o ExpectedCodes(Tail(evs))

\* C15: a consume call on an open device writes the device events of its
\* mapped input events in input order and then one synchronization barrier,
\* after all writes; unmapped and unrecognized events cause no write and no
\* error.
C15_WritesThenSyn ==
    (last_op = "consume" /\ k_open) =>
        LET codes == ExpectedCodes(consumed) IN
        /\ ~raised
        /\ Len(writes) = Len(codes) + 1
        /\ writes[Len(writes)] = Syn
        /\ \A i \in 1..Len(codes) :
              /\ writes[i].op = "write"
              /\ <<writes[i].type, writes[i].code>> = codes[i]

\* two mapped events of different codes were written in order, then the
\* barrier
C15_Witness ==
    /\ last_op = "consume" /\ k_open
    /\ Len(consumed) = 2
    /\ Len(writes) = 3
    /\ writes[1].code # writes[2].code
    /\ writes[3] = Syn

\* the last call was a consume of timestamp events only, on an open device
\* that outputs timestamps
StampCall ==
    /\ last_op = "consume" /\ k_open /\ output_timestamps
    /\ consumed # <<>>
    /\ \A i \in DOMAIN consumed :
          consumed[i].type = "axis" /\ consumed[i].code = "accel_ts"

\* the microsecond value ts of the i-th event consumed
Raw(i) == Micros(consumed[i].value)

\* the offset C16 expects after the first i events
RECURSIVE OfsAfter(_)
OfsAfter(i) ==
    IF i = 0 THEN ofs_before
    ELSE LET o == OfsAfter(i - 1)
         IN  IF BigGt(Raw(i), PlusWindow(o)) THEN Raw(i) ELSE o

\* the i-th event reset the offset
ResetAt(i) == BigGt(Raw(i), PlusWindow(OfsAfter(i - 1)))

\* C16: with timestamp output enabled, a timestamp ts beyond ofs + 2^30
\* resets the offset to ts and writes 0, any other leaves the offset and
\* writes ts - ofs; the offset never decreases, no written value exceeds
\* 2^30, and while the raw values do not decrease the values written from a
\* reset up to the next reset are non-negative and do not decrease.
C16_OffsetWindow ==
    StampCall =>
        LET n == Len(consumed) IN
        /\ self_ofs = OfsAfter(n)
        /\ \A i \in 1..n :
              /\ writes[i].value = IF ResetAt(i) THEN Zero
                                   ELSE BigSub(Raw(i), OfsAfter(i - 1))
              /\ ~BigGt(OfsAfter(i - 1), OfsAfter(i))
              /\ ~BigGt(writes[i].value, Big(1, 0))
        /\ \A r \in 1..n : \A i \in r..n : \A j \in i..n :
              (/\ ResetAt(r)
               /\ \A k \in (r + 1)..j :
                     ~ResetAt(k) /\ ~BigGt(Raw(k - 1), Raw(k)))
              => /\ writes[i].value.hi >= 0
                 /\ ~BigGt(writes[i].value, writes[j].value)

\* one call passed 2^30 + 6, 2^31 + 6 and 2^31 + 7 microseconds: a reset,
\* a value at the edge of the window (2^30 written), a second reset
C16_Witness ==
    /\ StampCall
    /\ Len(consumed) = 3
    /\ ofs_before = Zero
    /\ writes[1].value = Zero
    /\ writes[2].value = Big(1, 0)
    /\ writes[3].value = Zero
    /\ self_ofs = Big(2, 7)

\* C17: in both variants the fallback suspend is called in an iteration if
\* and only if a short-press or long-press action was dispatched in that
\* iteration and returned failure; whatever the fallback returns, the loop
\* continues.
C17_FallbackIffFailed ==
    LET called == \E i \in DOMAIN dispatched : dispatched[i] = "suspend"
        failed == /\ dispatched # <<>>
                  /\ dispatched[1] \in {"short", "long"}
                  /\ ~returns[1]
    IN  /\ called <=> failed
        /\ called => pc = "top" /\ exit_reason = "none"

\* the short-press action failed, the fallback was called and failed too,
\* and the loop is at the top of its next iteration
C17_Witness ==
    /\ dispatched = <<"short", "suspend">>
    /\ returns = <<FALSE, FALSE>>
    /\ pc = "top"
    /\ exit_reason = "none"

\* the last iteration of the timer variant read a power-key release
ReleaseRead ==
    /\ cfg_type = "hold_emitted"
    /\ branch = "event"
    /\ press_type \in {"long_press", "short_press", "release_without_press"}

\* C18: in the timer variant a release with no press pending (none was
\* read, or the press was already classified, by its release or by the
\* timeout) dispatches nothing and leaves the state Idle.
C18_ReleaseWithoutPress ==
    (ReleaseRead /\ (press_type = "release_without_press" \/ since_press >= 2))
        => dispatched = <<>> /\ pressed_time = NoTime

\* an iteration of the sequence variant reads an event of the press device
PressRead ==
    /\ cfg_type = "hold_isa" /\ pc = "select" /\ pc' = "top"
    /\ branch' = "event"
    /\ queue[press_dev] # <<>>
    /\ queue'[press_dev] = Tail(queue[press_dev])

\* what C19 says of that iteration
PressStepRule ==
    LET ev == Head(queue[press_dev]) IN
    /\ hold_state' = hold_state
    /\ queue'[hold_dev] = queue[hold_dev]
    /\ IF ev = PowerPress
       THEN dispatched' # <<>> /\ dispatched'[1] = "short"
       ELSE dispatched' = <<>>

\* C19: in the sequence variant an event read from the press device
\* dispatches short-press exactly when it is a power-key event with value 1;
\* a release, another value or another event dispatches nothing; the hold
\* cursor is unchanged and no event of the hold device is consumed in the
\* same iteration.
C19_ShortOnPressOnly ==
    [][PressRead => PressStepRule]_vars

\* the mapped axis events of a consume call and the axis writes it made
IsMappedAxis(ev) == ev.type = "axis" /\ ev.code \in DOMAIN axis_map
IsAbsWrite(w) == w.op = "write" /\ w.type = "EV_ABS"
\* the last call was a consume on an open device
OpenConsume == last_op = "consume" /\ k_open

\* v * scale + offset of an axis event, as the fraction AxisNum / AxisDen
AxisNum(ev) ==
    LET ax == axis_map[ev.code]
    IN  ax.sn * ev.value * ax.od + ax.on * ax.sd
AxisDen(ev) == LET ax == axis_map[ev.code] IN ax.sd * ax.od

\* n / d (d > 0) rounded to the nearest integer, a tie to the even one
RoundOf(n, d) ==
    LET q == n \div d
        r == n - q * d
    IN  IF 2 * r < d THEN q
        ELSE IF 2 * r > d THEN q + 1
        ELSE IF q % 2 = 0 THEN q ELSE q + 1

\* t is n / d (d > 0) with its fraction dropped
IsTruncated(t, n, d) ==
    IF n >= 0 THEN t * d <= n /\ n < (t + 1) * d
    ELSE (t - 1) * d < n /\ n <= t * d

\* x brought into the bounds of the axis entry, if it has bounds
Clamp(ax, x) ==
    IF ax.bounds = NoBounds THEN x
    ELSE IF x < ax.bounds[1] THEN ax.bounds[1]
    ELSE IF x > ax.bounds[2] THEN ax.bounds[2]
    ELSE x

IsErase(ev) == ev.type = "EV_UINPUT" /\ ev.code = "UI_FF_ERASE"
IsUpload(ev) == ev.type = "EV_UINPUT" /\ ev.code = "UI_FF_UPLOAD"
IsPlay(ev) == ev.type = "EV_FF" /\ ev.value # 0
IsStop(ev) == ev.type = "EV_FF" /\ ev.value = 0
IsEndErase(a) == a = "end_erase"
IsEndUpload(a) == a = "end_upload"

\* the effect the claims expect to be remembered after the events evs, r
\* being remembered before: the last rumble-type effect uploaded
RECURSIVE Remembered(_, _)
Remembered(evs, r) ==
    IF evs = <<>> THEN r
    ELSE LET ev == Head(evs) IN
         Remembered(Tail(evs),
             IF IsUpload(ev) /\ ev.effect.type = "FF_RUMBLE"
             THEN <<Rumble(<<ev.effect.weak, 65535>>,
                           <<ev.effect.strong, 65535>>)>>
             ELSE r)

\* the events the claims expect produce to return for the events evs: the
\* remembered effect for a play, if there is one, and a zero rumble for a
\* stop
RECURSIVE Emitted(_, _)
Emitted(evs, r) ==
    IF evs = <<>> THEN <<>>
    ELSE LET ev == Head(evs)
             r2 == Remembered(<<ev>>, r)
         IN  (IF IsPlay(ev) THEN r
              ELSE IF IsStop(ev) THEN <<RumbleStop>>
              ELSE <<>>) \o Emitted(Tail(evs), r2)

\* C11: a produce call that drains an erase request completes normally,
\* acknowledges every erase request, returns the events of the rest of the
\* batch and leaves the remembered effect to the uploads of the batch.
C11_EraseAcknowledged ==
    (last_op = "produce" /\ \E i \in DOMAIN drained : IsErase(drained[i])) =>
        /\ ~raised
        /\ Len(SelectSeq(acks, IsEndErase)) = Len(SelectSeq(drained, IsErase))
        /\ ret = Emitted(drained, rumble_before)
        /\ self_rumble = Remembered(drained, rumble_before)

\* an event produce returned for a play, not for a stop
NotStop(e) == e # RumbleStop
IsStopEvent(e) == e = RumbleStop

\* C12: the events a produce call returns for the play events it drained
\* are, in order, the rumble-type effect uploaded last before each play
\* (nothing for a play before any such upload); every upload is
\* acknowledged, and only a rumble-type upload changes the remembered effect.
C12_PlayEmitsUploaded ==
    last_op = "produce" =>
        /\ SelectSeq(ret, NotStop)
               = SelectSeq(Emitted(drained, rumble_before), NotStop)
        /\ Len(SelectSeq(acks, IsEndUpload)) = Len(SelectSeq(drained, IsUpload))
        /\ self_rumble = Remembered(drained, rumble_before)

\* C13: a produce call returns one zero rumble for every stop event it
\* drained, whatever was uploaded, and a stop does not change the remembered
\* effect.
C13_StopEmitsZero ==
    last_op = "produce" =>
        /\ Len(SelectSeq(ret, IsStopEvent)) = Len(SelectSeq(drained, IsStop))
        /\ (\A i \in DOMAIN drained : IsStop(drained[i]))
              => self_rumble = rumble_before

\* --------------------------------------------------------- specifications

\* the watchdog, as power_button_run starts it
Init == WInit /\ UInit /\ GInit /\ output_timestamps = FALSE
Next ==
    \/ TimerTop /\ UNCHANGED dvars
    \/ TimerWait /\ UNCHANGED dvars
    \/ TimerSelect /\ UNCHANGED dvars
    \/ IsaTop /\ UNCHANGED dvars
    \/ IsaWait /\ UNCHANGED dvars
    \/ IsaSelect /\ UNCHANGED dvars
    \/ GatingChange /\ UNCHANGED dvars
    \/ SetExit /\ UNCHANGED dvars
    \/ Unplug /\ UNCHANGED dvars
    \/ Plug /\ UNCHANGED dvars
    \/ KernelEvent /\ UNCHANGED dvars
    \/ Tick /\ UNCHANGED dvars
Spec == Init /\ [][Next]_vars

\* the virtual device, driven by its caller
\* the watchdog does not run beside the device
WIdle == WInit /\ cfg_type = "hold_emitted" /\ gating = FALSE
DevInit == UInit /\ GInit /\ WIdle
DevNext ==
    \/ UOpen /\ UNCHANGED <<wvars, gvars>>
    \/ UClose /\ UNCHANGED <<wvars, gvars>>
    \/ UConsume /\ UNCHANGED <<wvars, gvars>>
    \/ UProduce /\ UNCHANGED <<wvars, gvars>>
DevSpec == DevInit /\ [][DevNext]_vars

\* the reader of the virtual device: the kernel delivers ff_queue
ProduceInit ==
    /\ UInit /\ WIdle
    /\ output_timestamps = FALSE
    /\ \E n \in 0..MaxDrained : ff_queue \in [1..n -> InboundEvents]
    /\ drained = <<>>
    /\ rumble_before = NoRumble
    /\ plan = <<>>
    /\ consumed = <<>>
    /\ ofs_before = Zero
ProduceNext ==
    \/ UOpen /\ UNCHANGED <<wvars, gvars>>
    \/ UClose /\ UNCHANGED <<wvars, gvars>>
    \/ QProduce /\ UNCHANGED wvars
ProduceSpec == ProduceInit /\ [][ProduceNext]_vars

\* the writer of the virtual device: its caller passes the plan
Plans ==
    UNION {[1..n -> ConsumeEvents] : n \in 0..MaxPlan}
\* one event of every mapped axis, for every small value
AxisPlans ==
    {<<[type |-> "axis", code |-> c, value |-> v]>> :
        c \in DOMAIN axis_map, v \in (-MaxAxis)..MaxAxis}
StampEvents ==
    {[type |-> "axis", code |-> "accel_ts", value |-> v] : v \in StampValues}
StampPlans ==
    UNION {[1..n -> StampEvents] : n \in 0..MaxStamps}
ConsumeInit ==
    /\ UInit /\ WIdle
    /\ plan \in Plans \cup StampPlans \cup AxisPlans
    /\ consumed = <<>>
    /\ ofs_before = Zero
    /\ ff_queue = <<>>
    /\ drained = <<>>
    /\ rumble_before = NoRumble
ConsumeNext ==
    \/ UOpen /\ UNCHANGED <<wvars, gvars>>
    \/ QConsume /\ UNCHANGED wvars
ConsumeSpec == ConsumeInit /\ [][ConsumeNext]_vars

====
